---- MODULE Spec2Model ----
(***************************************************************************)
(* Model of plugins/module_utils/utils.py of the cisco.mso collection: the *)
(* patch generator append_update_ops_data, which walks a replace set and a *)
(* remove set against an existing nested object, mutates the object in     *)
(* place and appends the matching PATCH operations to ops.                 *)
(* The other utilities of the file (map_keys_to_new_dict,                  *)
(* remove_none_values, merge_sub_dict_into_main,                           *)
(* get_template_object_name_by_uuid) and main() of the modules             *)
(* ndo_tenant_netflow_monitor, ndo_tenant_netflow_record and               *)
(* ndo_tenant_netflow_exporter follow it, each under a specification of    *)
(* its own.                                                                *)
(*                                                                         *)
(* Python values are tagged records:                                       *)
(*   None            [t |-> "none"]                                        *)
(*   str / int / bool [t |-> "str" / "int" / "bool", v |-> payload]        *)
(*   list, tuple     [t |-> "list" / "tuple", v |-> sequence]              *)
(*   dict (snapshot) [t |-> "dict", v |-> function key -> value]           *)
(*   dict (replace_data, whose iteration order matters)                    *)
(*                   [t |-> "odict", items |-> sequence of key/value]      *)
(* A replace_data or remove_data key is a bare string S(k) or a tuple      *)
(* T(<<k1, ..., kn>>) of raw strings.  Keys contain no "/".                *)
(***************************************************************************)
EXTENDS Integers, Sequences, FiniteSets, TLC

None == [t |-> "none"]
S(x) == [t |-> "str", v |-> x]
I(x) == [t |-> "int", v |-> x]
B(x) == [t |-> "bool", v |-> x]
L(s) == [t |-> "list", v |-> s]
T(s) == [t |-> "tuple", v |-> s]
D(f) == [t |-> "dict", v |-> f]
OD(items) == [t |-> "odict", items |-> items]
Item(k, val) == [key |-> k, value |-> val]

EmptyMap == [k \in {} |-> None]

(***************************************************************************)
(* Python primitives used by the code.                                     *)
(***************************************************************************)

\* bool(x): the truth value tested by "if replace_data:" / "if remove_data:".
Truthy(x) ==
    CASE x.t = "none"  -> FALSE
      [] x.t = "str"   -> x.v # ""
      [] x.t = "int"   -> x.v # 0
      [] x.t = "bool"  -> x.v
      [] x.t = "list"  -> Len(x.v) > 0
      [] x.t = "tuple" -> Len(x.v) > 0
      [] x.t = "dict"  -> DOMAIN x.v # {}
      [] x.t = "odict" -> Len(x.items) > 0

\* The number a bool or an int compares as (True == 1, False == 0).
NumOf(x) == IF x.t = "bool" THEN (IF x.v THEN 1 ELSE 0) ELSE x.v

IsNum(x) == x.t \in {"int", "bool"}

\* x == y in Python, on the values of the model.
RECURSIVE PyEq(_, _)
PyEq(x, y) ==
    IF IsNum(x) /\ IsNum(y) THEN NumOf(x) = NumOf(y)
    ELSE IF x.t # y.t THEN FALSE
    ELSE CASE x.t = "none" -> TRUE
           [] x.t = "str"  -> x.v = y.v
           [] x.t = "list" ->
                /\ Len(x.v) = Len(y.v)
                /\ \A i \in 1..Len(x.v) : PyEq(x.v[i], y.v[i])
           [] x.t = "dict" ->
                /\ DOMAIN x.v = DOMAIN y.v
                /\ \A k \in DOMAIN x.v : PyEq(x.v[k], y.v[k])
           [] OTHER -> x = y

\* The pieces a string of the model is cut into by the substring test.
Pieces == {"", "a", "b"}

\* "key in data": "true", "false", or "TypeError" when data is not iterable.
\* A dict tests its keys, a str tests for a substring, a list its elements.
KeyIn(key, data) ==
    CASE data.t = "dict" -> IF key \in DOMAIN data.v THEN "true" ELSE "false"
      [] data.t = "str"  ->
            IF \E pre \in Pieces, post \in Pieces : pre \o key \o post = data.v
            THEN "true" ELSE "false"
      [] data.t = "list" ->
            IF \E i \in 1..Len(data.v) : PyEq(data.v[i], S(key))
            THEN "true" ELSE "false"
      [] OTHER -> "TypeError"

\* data.get(key) on a dict.
DictGet(data, key) == IF key \in DOMAIN data.v THEN data.v[key] ELSE None

\* data[key] = value on a dict.
DictSet(data, key, value) ==
    D([k \in DOMAIN data.v \cup {key} |-> IF k = key THEN value ELSE data.v[k]])

\* data.pop(key) on a dict that holds key.
DictPop(data, key) == D([k \in DOMAIN data.v \ {key} |-> data.v[k]])

\* The key appended to the path without the "/".
FormatNoSlash(path, key) == path \o key

\* "{}/{}".format(path, key)
Format(path, key) == path \o "/" \o key

\* The value itself instead of a copy of it: the same object (ref).
DeepcopyAlias(value, ref) == [value |-> value, ref |-> ref]

\* copy.deepcopy(value): a new object with the same content.  The copy shares
\* nothing with the original, so it carries no object identity (ref 0).
Deepcopy(value, ref) == [value |-> value, ref |-> 0]

(***************************************************************************)
(* Paths inside a nested value (used for the bookkeeping of shared         *)
(* objects and for applying operations to a document).                     *)
(***************************************************************************)

IsPrefix(p, q) == Len(p) <= Len(q) /\ \A i \in 1..Len(p) : p[i] = q[i]

Front(p) == SubSeq(p, 1, Len(p) - 1)

Last(p) == p[Len(p)]

\* TRUE iff every segment of segs but the last leads through a dict of d.
RECURSIVE ParentIsDict(_, _)
ParentIsDict(d, segs) ==
    /\ d.t = "dict"
    /\ \/ Len(segs) = 1
       \/ /\ Head(segs) \in DOMAIN d.v
          /\ ParentIsDict(d.v[Head(segs)], Tail(segs))

\* d with value stored at segs; d unchanged when the parent is no dict.
RECURSIVE SetAt(_, _, _)
SetAt(d, segs, value) ==
    IF ~ParentIsDict(d, segs) THEN d
    ELSE IF Len(segs) = 1 THEN DictSet(d, Head(segs), value)
    ELSE DictSet(d, Head(segs), SetAt(d.v[Head(segs)], Tail(segs), value))

\* d with the key at segs deleted; d unchanged when there is no such key.
RECURSIVE DelAt(_, _)
DelAt(d, segs) ==
    IF ~ParentIsDict(d, segs) THEN d
    ELSE IF Len(segs) = 1
         THEN (IF Head(segs) \in DOMAIN d.v THEN DictPop(d, Head(segs)) ELSE d)
    ELSE DictSet(d, Head(segs), DelAt(d.v[Head(segs)], Tail(segs)))

(***************************************************************************)
(* recursive_replace and recursive_delete.  The Python functions mutate    *)
(* data and the enclosing ops in place; the operators return the new       *)
(* content of both, and the exception raised on the way ("" for none).     *)
(***************************************************************************)

Outcome(ops, data, raised) == [ops |-> ops, data |-> data, raised |-> raised]

\* recursive_replace without the comparison with the current value.
RECURSIVE recursive_replace_always(_, _, _, _, _, _)
recursive_replace_always(ops, data, path, keys, new_value, ref) ==
    LET key == Head(keys) IN
    IF Len(keys) = 1 THEN
        IF new_value.t = "none" THEN Outcome(ops, data, "")
        ELSE IF data.t # "dict" THEN Outcome(ops, data, "AttributeError")
        ELSE Outcome(Append(ops, [op |-> "replace",
                                  path |-> Format(path, key),
                                  value |-> Deepcopy(new_value, ref).value]),
                     DictSet(data, key, new_value), "")
    ELSE
        LET found == KeyIn(key, data) IN
        IF found = "TypeError" THEN Outcome(ops, data, "TypeError")
        ELSE IF found = "false" THEN Outcome(ops, data, "")
        ELSE IF data.t # "dict" THEN Outcome(ops, data, "TypeError")
        ELSE LET r == recursive_replace_always(ops, data.v[key], Format(path, key),
                                               Tail(keys), new_value, ref)
             IN  Outcome(r.ops, DictSet(data, key, r.data), r.raised)

\* recursive_replace that appends the operation but does not store the value.
RECURSIVE recursive_replace_no_store(_, _, _, _, _, _)
recursive_replace_no_store(ops, data, path, keys, new_value, ref) ==
    LET key == Head(keys) IN
    IF Len(keys) = 1 THEN
        IF new_value.t = "none" THEN Outcome(ops, data, "")
        ELSE IF data.t # "dict" THEN Outcome(ops, data, "AttributeError")
        ELSE IF PyEq(DictGet(data, key), new_value) THEN Outcome(ops, data, "")
        ELSE Outcome(Append(ops, [op |-> "replace",
                                  path |-> Format(path, key),
                                  value |-> Deepcopy(new_value, ref).value]),
                     data, "")
    ELSE
        LET found == KeyIn(key, data) IN
        IF found = "TypeError" THEN Outcome(ops, data, "TypeError")
        ELSE IF found = "false" THEN Outcome(ops, data, "")
        ELSE IF data.t # "dict" THEN Outcome(ops, data, "TypeError")
        ELSE LET r == recursive_replace_no_store(ops, data.v[key], Format(path, key),
                                                 Tail(keys), new_value, ref)
             IN  Outcome(r.ops, DictSet(data, key, r.data), r.raised)

\* recursive_replace that creates a missing intermediate dict and walks on.
RECURSIVE recursive_replace_create(_, _, _, _, _, _)
recursive_replace_create(ops, data, path, keys, new_value, ref) ==
    LET key == Head(keys) IN
    IF Len(keys) = 1 THEN
        IF new_value.t = "none" THEN Outcome(ops, data, "")
        ELSE IF data.t # "dict" THEN Outcome(ops, data, "AttributeError")
        ELSE IF PyEq(DictGet(data, key), new_value) THEN Outcome(ops, data, "")
        ELSE Outcome(Append(ops, [op |-> "replace",
                                  path |-> Format(path, key),
                                  value |-> Deepcopy(new_value, ref).value]),
                     DictSet(data, key, new_value), "")
    ELSE
        LET found == KeyIn(key, data) IN
        IF found = "TypeError" THEN Outcome(ops, data, "TypeError")
        ELSE IF data.t # "dict"
             THEN Outcome(ops, data, IF found = "true" THEN "TypeError" ELSE "")
        ELSE LET below == IF found = "true" THEN data.v[key] ELSE D(EmptyMap)
                 r == recursive_replace_create(ops, below, Format(path, key),
                                               Tail(keys), new_value, ref)
             IN  Outcome(r.ops, DictSet(data, key, r.data), r.raised)

\* recursive_replace without "new_value is not None": None is stored as any
\* other value.
RECURSIVE recursive_replace_none(_, _, _, _, _, _)
recursive_replace_none(ops, data, path, keys, new_value, ref) ==
    LET key == Head(keys) IN
    IF Len(keys) = 1 THEN
        IF data.t # "dict" THEN Outcome(ops, data, "AttributeError")
        ELSE IF PyEq(DictGet(data, key), new_value) THEN Outcome(ops, data, "")
        ELSE Outcome(Append(ops, [op |-> "replace",
                                  path |-> Format(path, key),
                                  value |-> Deepcopy(new_value, ref).value]),
                     DictSet(data, key, new_value), "")
    ELSE
        LET found == KeyIn(key, data) IN
        IF found = "TypeError" THEN Outcome(ops, data, "TypeError")
        ELSE IF found = "false" THEN Outcome(ops, data, "")
        ELSE IF data.t # "dict" THEN Outcome(ops, data, "TypeError")
        ELSE LET r == recursive_replace_none(ops, data.v[key], Format(path, key),
                                             Tail(keys), new_value, ref)
             IN  Outcome(r.ops, DictSet(data, key, r.data), r.raised)

\* recursive_replace that appends op "add" when it creates the final key.
RECURSIVE recursive_replace_add(_, _, _, _, _, _)
recursive_replace_add(ops, data, path, keys, new_value, ref) ==
    LET key == Head(keys) IN
    IF Len(keys) = 1 THEN
        IF new_value.t = "none" THEN Outcome(ops, data, "")
        ELSE IF data.t # "dict" THEN Outcome(ops, data, "AttributeError")
        ELSE IF PyEq(DictGet(data, key), new_value) THEN Outcome(ops, data, "")
        ELSE Outcome(Append(ops, [op |-> IF key \in DOMAIN data.v
                                         THEN "replace" ELSE "add",
                                  path |-> Format(path, key),
                                  value |-> Deepcopy(new_value, ref).value]),
                     DictSet(data, key, new_value), "")
    ELSE
        LET found == KeyIn(key, data) IN
        IF found = "TypeError" THEN Outcome(ops, data, "TypeError")
        ELSE IF found = "false" THEN Outcome(ops, data, "")
        ELSE IF data.t # "dict" THEN Outcome(ops, data, "TypeError")
        ELSE LET r == recursive_replace_add(ops, data.v[key], Format(path, key),
                                            Tail(keys), new_value, ref)
             IN  Outcome(r.ops, DictSet(data, key, r.data), r.raised)

RECURSIVE recursive_replace(_, _, _, _, _, _)
recursive_replace(ops, data, path, keys, new_value, ref) ==
    LET key == Head(keys) IN
    IF Len(keys) = 1 THEN
        IF new_value.t = "none" THEN Outcome(ops, data, "")
        ELSE IF data.t # "dict" THEN Outcome(ops, data, "AttributeError")
        ELSE IF PyEq(DictGet(data, key), new_value) THEN Outcome(ops, data, "")
        ELSE Outcome(Append(ops, [op |-> "replace",
                                  path |-> Format(path, key),
                                  value |-> Deepcopy(new_value, ref).value]),
                     DictSet(data, key, new_value), "")
    ELSE
        LET found == KeyIn(key, data) IN
        IF found = "TypeError" THEN Outcome(ops, data, "TypeError")
        ELSE IF found = "false" THEN Outcome(ops, data, "")
        ELSE IF data.t # "dict" THEN Outcome(ops, data, "TypeError")
        ELSE LET r == recursive_replace(ops, data.v[key], Format(path, key),
                                        Tail(keys), new_value, ref)
             IN  Outcome(r.ops, DictSet(data, key, r.data), r.raised)

\* recursive_delete without "if key in data" at the final key of a dict: the
\* operation is appended whether or not the key is present.
RECURSIVE recursive_delete_always(_, _, _, _)
recursive_delete_always(ops, data, path, keys) ==
    LET key == Head(keys)
        found == KeyIn(key, data)
    IN
    IF Len(keys) = 1 /\ data.t = "dict" THEN
        Outcome(Append(ops, [op |-> "remove", path |-> Format(path, key)]),
                DictPop(data, key), "")
    ELSE IF found = "TypeError" THEN Outcome(ops, data, "TypeError")
    ELSE IF found = "false" THEN Outcome(ops, data, "")
    ELSE IF Len(keys) = 1 THEN
        IF data.t = "str" THEN Outcome(ops, data, "AttributeError")
        ELSE Outcome(ops, data, "TypeError")
    ELSE
        IF data.t # "dict" THEN Outcome(ops, data, "TypeError")
        ELSE LET r == recursive_delete_always(ops, data.v[key], Format(path, key),
                                              Tail(keys))
             IN  Outcome(r.ops, DictSet(data, key, r.data), r.raised)

RECURSIVE recursive_delete(_, _, _, _)
recursive_delete(ops, data, path, keys) ==
    LET key == Head(keys)
        found == KeyIn(key, data)
    IN
    IF found = "TypeError" THEN Outcome(ops, data, "TypeError")
    ELSE IF found = "false" THEN Outcome(ops, data, "")
    ELSE IF Len(keys) = 1 THEN
        IF data.t = "str" THEN Outcome(ops, data, "AttributeError")
        ELSE IF data.t # "dict" THEN Outcome(ops, data, "TypeError")
        ELSE Outcome(Append(ops, [op |-> "remove", path |-> Format(path, key)]),
                     DictPop(data, key), "")
    ELSE
        IF data.t # "dict" THEN Outcome(ops, data, "TypeError")
        ELSE LET r == recursive_delete(ops, data.v[key], Format(path, key), Tail(keys))
             IN  Outcome(r.ops, DictSet(data, key, r.data), r.raised)

(***************************************************************************)
(* Object sharing.  "data[key] = new_value" stores the caller's object     *)
(* itself: from then on the snapshot and replace_data hold one object, and *)
(* a later mutation of the snapshot below that key is a mutation of the    *)
(* replace_data value too.  The value of item i of replace_data is object  *)
(* i, and 0 stands for the snapshot (as a holder) or for an object nobody  *)
(* else holds (as a value).  shared is the set of <<segments, i>> such     *)
(* that the snapshot holds object i at segments; held is the set of        *)
(* <<i, segments, j>> such that object i holds object j at segments        *)
(* (object j was stored below a key of i while the snapshot held i, and i  *)
(* keeps it when the snapshot lets go of i); op_refs[n] is the object held *)
(* by ops[n] as its value.  Both sets list what is held directly and what  *)
(* is held through another object.                                         *)
(***************************************************************************)

\* The walk state of one call.
Walk(ops, op_refs, data, rd, shared, held, raised, steps) ==
    [ops |-> ops, op_refs |-> op_refs, data |-> data, rd |-> rd,
     shared |-> shared, held |-> held, raised |-> raised, steps |-> steps]

\* The record of one iteration of a loop: the entry walked, the snapshot
\* before and after it, the number of operations it appended and the
\* exception it raised.
Step(kind, keys, new_value, before, r, n) ==
    [kind |-> kind, keys |-> keys, new_value |-> new_value, before |-> before,
     after |-> r.data, appended |-> Len(r.ops) - n, raised |-> r.raised]

\* segs from the segments at on.
Rel(at, segs) == SubSeq(segs, Len(at) + 1, Len(segs))

\* The holders of the key the snapshot has at segs, each with the segments
\* at which it has that key: the snapshot (0), the objects the snapshot
\* holds on the way to the key, and the objects that hold one of these.
Holders(shared, held, segs) ==
    LET above == {s \in shared : IsPrefix(s[1], Front(segs))} IN
    {<<0, segs>>}
    \cup {<<s[2], Rel(s[1], segs)>> : s \in above}
    \cup UNION {{<<t[1], t[2] \o Rel(s[1], segs)>> : t \in {u \in held : u[3] = s[2]}} :
                  s \in above}

\* The holders of the key k of object j: the object, the snapshot when it
\* holds the object, and the objects that hold it.
HoldersOf(shared, held, j, k) ==
    {<<j, <<k>>>>}
    \cup {<<0, s[1] \o <<k>>>> : s \in {u \in shared : u[2] = j}}
    \cup {<<t[1], t[2] \o <<k>>>> : t \in {u \in held : u[3] = j}}

\* value after the mutation kind ("set" / "del") of its key at segs.
Mutated(value, segs, kind, new_value) ==
    IF kind = "set" THEN SetAt(value, segs, new_value) ELSE DelAt(value, segs)

\* The walk state after one key, held at the places slots, was rebound to
\* new_value (object obj) or deleted: every holder sees the mutation, lets
\* go of what it held at or below the key and, for a rebinding, holds obj
\* and what obj holds.
Propagate(w, slots, kind, new_value, obj) ==
    LET Hit(h) == \E s \in slots : s[1] = h
        At(h) == (CHOOSE s \in slots : s[1] = h)[2]
        Gone(h, segs) == Hit(h) /\ IsPrefix(At(h), segs)
        below == {t \in w.held : t[1] = obj}
        Stored(h) == IF kind = "set" /\ obj # 0 /\ Hit(h)
                     THEN {<<At(h), obj>>} \cup {<<At(h) \o t[2], t[3]>> : t \in below}
                     ELSE {}
    IN  [w EXCEPT
          !.data = IF Hit(0) THEN Mutated(@, At(0), kind, new_value) ELSE @,
          !.rd = [j \in DOMAIN w.rd |->
                    IF Hit(j)
                    THEN Item(w.rd[j].key,
                              Mutated(w.rd[j].value, At(j), kind, new_value))
                    ELSE w.rd[j]],
          !.ops = [n \in DOMAIN w.ops |->
                    IF w.op_refs[n] # 0 /\ Hit(w.op_refs[n])
                    THEN [w.ops[n] EXCEPT !.value =
                            Mutated(@, At(w.op_refs[n]), kind, new_value)]
                    ELSE w.ops[n]],
          !.shared = {s \in @ : ~Gone(0, s[1])} \cup Stored(0),
          !.held = {t \in @ : ~Gone(t[1], t[2])}
                   \cup UNION {{<<h, e[1], e[2]>> : e \in Stored(h)} :
                                 h \in {s[1] : s \in slots} \ {0}}]

(***************************************************************************)
(* append_update_ops_data                                                  *)
(***************************************************************************)

\* The TypeError raised for a replace_data / remove_data of the wrong shape.
ReplaceShapeError == "TypeError: replace_data must be a dict"
RemoveShapeError == "TypeError: remove_data must be a list of string or tuples"

\* key if isinstance(key, tuple) else (key,)
KeysOf(key) == IF key.t = "tuple" THEN key.v ELSE <<key.v>>

\* One iteration of "for key, value in replace_data.items()".
ReplaceStep(w, update_path, i) ==
    LET segs == KeysOf(w.rd[i].key)
        new_value == w.rd[i].value
        r == recursive_replace(w.ops, w.data, update_path, segs, new_value, i)
        st == Append(w.steps, Step("replace", segs, new_value, w.data, r, Len(w.ops)))
    IN  IF Len(r.ops) = Len(w.ops)
        THEN [w EXCEPT !.raised = r.raised, !.data = r.data, !.steps = st]
        ELSE LET p == Propagate(w, Holders(w.shared, w.held, segs), "set",
                                new_value, i)
             IN
             [p EXCEPT !.ops = Append(p.ops, r.ops[Len(r.ops)]),
                       !.steps = st,
                       !.op_refs = Append(p.op_refs, Deepcopy(new_value, i).ref),
                       !.data = r.data,
                       !.raised = r.raised]

\* One iteration of "for key in remove_data".
RemoveStep(w, update_path, key) ==
    LET segs == KeysOf(key)
        r == recursive_delete(w.ops, w.data, update_path, segs)
        st == Append(w.steps, Step("remove", segs, None, w.data, r, Len(w.ops)))
    IN  IF Len(r.ops) = Len(w.ops)
        THEN [w EXCEPT !.raised = r.raised, !.data = r.data, !.steps = st]
        ELSE LET p == Propagate(w, Holders(w.shared, w.held, segs), "del",
                                None, 0)
             IN
             [p EXCEPT !.ops = Append(p.ops, r.ops[Len(r.ops)]),
                       !.steps = st,
                       !.op_refs = Append(p.op_refs, 0),
                       !.data = r.data,
                       !.raised = r.raised]

\* The replace loop from item i on; an exception ends the call.
RECURSIVE ReplaceLoop(_, _, _)
ReplaceLoop(w, update_path, i) ==
    IF w.raised # "" \/ i > Len(w.rd) THEN w
    ELSE ReplaceLoop(ReplaceStep(w, update_path, i), update_path, i + 1)

\* The remove loop walking remove_data from its last entry to its first.
RECURSIVE RemoveLoopReversed(_, _, _, _)
RemoveLoopReversed(w, update_path, remove_data, i) ==
    IF w.raised # "" \/ i > Len(remove_data.v) THEN w
    ELSE RemoveLoopReversed(
             RemoveStep(w, update_path, remove_data.v[Len(remove_data.v) + 1 - i]),
             update_path, remove_data, i + 1)

\* The remove loop from entry i on; an exception ends the call.
RECURSIVE RemoveLoop(_, _, _, _)
RemoveLoop(w, update_path, remove_data, i) ==
    IF w.raised # "" \/ i > Len(remove_data.v) THEN w
    ELSE RemoveLoop(RemoveStep(w, update_path, remove_data.v[i]),
                    update_path, remove_data, i + 1)

\* "if replace_data:" and its body.  w.rd is replace_data when it is a dict.
ReplacePart(w, update_path, replace_data) ==
    IF ~Truthy(replace_data) THEN w
    ELSE IF replace_data.t # "odict" THEN [w EXCEPT !.raised = ReplaceShapeError]
    ELSE ReplaceLoop(w, update_path, 1)

\* "if remove_data:" and its body.
RemovePart(w, update_path, remove_data) ==
    IF ~Truthy(remove_data) THEN w
    ELSE IF remove_data.t # "list" THEN [w EXCEPT !.raised = RemoveShapeError]
    ELSE RemoveLoop(w, update_path, remove_data, 1)

\* The call with the remove part before the replace part.
append_update_ops_data_remove_first(w, update_path, replace_data, remove_data) ==
    LET w1 == RemovePart(w, update_path, remove_data) IN
    IF w1.raised # "" THEN w1 ELSE ReplacePart(w1, update_path, replace_data)

\* The whole call: the replace part, then (unless it raised) the remove part.
append_update_ops_data(w, update_path, replace_data, remove_data) ==
    LET w1 == ReplacePart(w, update_path, replace_data) IN
    IF w1.raised # "" THEN w1 ELSE RemovePart(w1, update_path, remove_data)

(***************************************************************************)
(* The other utilities: map_keys_to_new_dict, remove_none_values and       *)
(* merge_sub_dict_into_main.  A key_mapping is a dict in iteration order,  *)
(* OD of Item(old_key, new_key); the keys of a main_dict are bare keys     *)
(* S(k) and tuples T(segments).                                            *)
(***************************************************************************)

\* all(value is None for value in values), values a sequence or the
\* key -> value function of a dict whose values() are tested.
check_if_all_elements_are_none(values) ==
    \A i \in DOMAIN values : values[i] = None

\* The item of key_mapping that is last to assign new_key.
LastFor(key_mapping, new_key) ==
    CHOOSE i \in DOMAIN key_mapping.items :
        /\ key_mapping.items[i].value = new_key
        /\ \A j \in DOMAIN key_mapping.items :
              key_mapping.items[j].value = new_key => j <= i

\* map_keys_to_new_dict without "if input_dict:": every new key is assigned.
map_keys_to_new_dict_total(input_dict, key_mapping) ==
    LET source == IF input_dict.t = "dict" THEN input_dict ELSE D(EmptyMap) IN
    D([new_key \in {key_mapping.items[i].value : i \in DOMAIN key_mapping.items} |->
         DictGet(source, key_mapping.items[LastFor(key_mapping, new_key)].key)])

\* output_dict[new_key] = input_dict.get(old_key) for the items of
\* key_mapping in order, when input_dict is truthy; {} otherwise.
map_keys_to_new_dict(input_dict, key_mapping) ==
    IF ~Truthy(input_dict) THEN D(EmptyMap)
    ELSE D([new_key \in {key_mapping.items[i].value : i \in DOMAIN key_mapping.items} |->
              DictGet(input_dict,
                      key_mapping.items[LastFor(key_mapping, new_key)].key)])

\* remove_none_values that filters on truth ("if value") instead of
\* "is not None".
RECURSIVE remove_none_values_falsy(_)
remove_none_values_falsy(data) ==
    IF data.t = "dict" THEN
        LET kept == {key \in DOMAIN data.v : Truthy(data.v[key])}
            cleaned_dict == [key \in kept |-> remove_none_values_falsy(data.v[key])]
            out == {key \in kept : Truthy(cleaned_dict[key])}
        IN  IF out = {} THEN None ELSE D([key \in out |-> cleaned_dict[key]])
    ELSE IF data.t = "list" THEN
        LET kept == SelectSeq(data.v, LAMBDA item : Truthy(item))
            cleaned_list == [i \in DOMAIN kept |-> remove_none_values_falsy(kept[i])]
            out == SelectSeq(cleaned_list, LAMBDA item : Truthy(item))
        IN  IF out = <<>> THEN None ELSE L(out)
    ELSE data

\* remove_none_values without the second filter: what the recursion returns
\* is kept as it is.
RECURSIVE remove_none_values_once(_)
remove_none_values_once(data) ==
    IF data.t = "dict" THEN
        LET kept == {key \in DOMAIN data.v : data.v[key] # None}
            cleaned_dict == [key \in kept |-> remove_none_values_once(data.v[key])]
        IN  IF kept = {} THEN None ELSE D(cleaned_dict)
    ELSE IF data.t = "list" THEN
        LET kept == SelectSeq(data.v, LAMBDA item : item # None)
            cleaned_list == [i \in DOMAIN kept |-> remove_none_values_once(kept[i])]
        IN  IF cleaned_list = <<>> THEN None ELSE L(cleaned_list)
    ELSE data

\* A dict: the values that are not None are cleaned, those cleaned to None
\* are dropped, and an empty result is None ("... or None").  A list
\* likewise.  Anything else is returned as it is.
RECURSIVE remove_none_values(_)
remove_none_values(data) ==
    IF data.t = "dict" THEN
        LET kept == {key \in DOMAIN data.v : data.v[key] # None}
            cleaned_dict == [key \in kept |-> remove_none_values(data.v[key])]
            out == {key \in kept : cleaned_dict[key] # None}
        IN  IF out = {} THEN None ELSE D([key \in out |-> cleaned_dict[key]])
    ELSE IF data.t = "list" THEN
        LET kept == SelectSeq(data.v, LAMBDA item : item # None)
            cleaned_list == [i \in DOMAIN kept |-> remove_none_values(kept[i])]
            out == SelectSeq(cleaned_list, LAMBDA item : item # None)
        IN  IF out = <<>> THEN None ELSE L(out)
    ELSE data

\* tuple(prefix_list + [key])
PrefixedKey(prefix_keys, key) == T(prefix_keys \o <<key>>)

\* merge_sub_dict_into_main that keeps the value of a key main_dict holds.
merge_sub_dict_into_main_keep(main_dict, sub_dict, prefix_keys) ==
    IF ~Truthy(sub_dict) THEN main_dict
    ELSE LET added == {PrefixedKey(prefix_keys, key) : key \in DOMAIN sub_dict.v} IN
         D([k \in DOMAIN main_dict.v \cup added |->
              IF k \in DOMAIN main_dict.v THEN main_dict.v[k]
              ELSE sub_dict.v[Last(k.v)]])

\* main_dict[tuple(prefix_list + [key])] = value for the items of a truthy
\* sub_dict; main_dict itself is returned.
merge_sub_dict_into_main(main_dict, sub_dict, prefix_keys) ==
    IF ~Truthy(sub_dict) THEN main_dict
    ELSE LET added == {PrefixedKey(prefix_keys, key) : key \in DOMAIN sub_dict.v} IN
         D([k \in DOMAIN main_dict.v \cup added |->
              IF k \in added THEN sub_dict.v[Last(k.v)] ELSE main_dict.v[k]])

\* The request of get_template_object_name_by_uuid:
\* mso.request("templates/objects?type={0}&uuid={1}".format(object_type, uuid),
\*             "GET")
NameRequest(object_type, uuid) ==
    [method |-> "GET",
     path |-> "templates/objects?type=" \o object_type \o "&uuid=" \o uuid]

\* What get_template_object_name_by_uuid returns for the answer of the API.
get_template_object_name_by_uuid(response_object) ==
    IF Truthy(response_object) THEN DictGet(response_object, "name") ELSE None

(***************************************************************************)
(* The inputs.                                                             *)
(***************************************************************************)

\* Most items of a replace_data, most entries of a remove_data, most calls.
MaxReplace == 2
MaxRemove == 2
MaxCalls == 2

Keys == {"a", "b"}

\* The dicts with keys among keys and values among vals.
DictsOver(keys, vals) ==
    {D(f) : f \in UNION {[dom -> vals] : dom \in SUBSET keys}}

\* Scalars and lists: None, an int, a bool equal to it, a str and a list
\* that contain the key "a".
Leaves == {None, I(1), B(TRUE), S("a"), L(<<S("a")>>)}

\* Snapshots hold, under "a", a leaf or a dict two levels deep (as the
\* bfdMultiHopPol of the docstring sample), and under "b" a leaf.
Level3 == DictsOver({"a"}, {I(1)})
Level2 == DictsOver({"b"}, {None, I(1), S("a")} \cup Level3)
SnapshotMaps ==
    {f \in UNION {[dom -> Leaves \cup Level2] : dom \in SUBSET Keys} :
        \A k \in DOMAIN f : k = "b" => f[k] = I(1)}
Snapshots == {D(f) : f \in SnapshotMaps}

\* The keys a caller declares: a bare key, and tuples of one to three
\* segments (one of them the bare key as a tuple).
DeclaredKeys ==
    {S("b"), T(<<"b">>), T(<<"a">>), T(<<"a", "b">>), T(<<"a", "b", "a">>)}

\* The new values a caller declares: the "no change" marker, scalars, a dict.
NewValues == {None, I(1), S("a"), D([k \in {"b"} |-> I(1)])}

\* All sequences over set of length at most n.
SeqsUpTo(set, n) == UNION {[1..m -> set] : m \in 0..n}

\* A dict has no two equal keys.
DistinctKeys(items) ==
    \A i \in DOMAIN items, j \in DOMAIN items : i # j => items[i].key # items[j].key

ReplaceItems == {Item(k, val) : k \in DeclaredKeys, val \in NewValues}

\* replace_data: absent, a dict in iteration order, or an argument of the
\* wrong shape, falsy or truthy.
ReplaceDicts ==
    {OD(items) : items \in {s \in SeqsUpTo(ReplaceItems, MaxReplace) : DistinctKeys(s)}}
ReplaceArgs == {None, L(<<>>), L(<<S("a")>>), S("a")} \cup ReplaceDicts

\* remove_data: absent, a list of keys, or an argument of the wrong shape.
RemoveLists == {L(keys) : keys \in SeqsUpTo(DeclaredKeys, MaxRemove)}
RemoveArgs == {None, S(""), I(0), S("a"), T(<<"a">>)} \cup RemoveLists

UpdatePaths == {"/x/0"}

\* Most elements of a list and most items of a key_mapping.
MaxItems == 2

\* Scalars: None, the falsy 0, False and "", and a truthy one.
Scalars == {None, I(0), B(FALSE), S(""), I(1)}

ListsOver(vals, n) == {L(items) : items \in SeqsUpTo(vals, n)}

\* The structures remove_none_values is given: scalars; dicts and lists of
\* scalars; dicts of those, lists of the narrow ones among those; and one
\* more level around each of these.
Flat == Scalars \cup DictsOver(Keys, Scalars) \cup ListsOver(Scalars, MaxItems)
Narrow == Scalars \cup DictsOver({"a"}, Scalars) \cup ListsOver(Scalars, 1)
Nested == Flat \cup DictsOver(Keys, Flat) \cup ListsOver(Narrow, MaxItems)
Structures ==
    Nested \cup DictsOver({"a"}, Nested) \cup ListsOver(Nested, 1)

\* merge_sub_dict_into_main: main dicts that hold bare keys and tuple keys
\* (some of them those the merge assigns), absent, empty and non-empty sub
\* dicts, prefixes of zero to two keys.
PrefixKeys == {<<>>, <<"p">>, <<"p", "q">>}
MainKeys == {S("a"), T(<<"a">>), T(<<"p", "a">>), T(<<"p", "q", "b">>)}
MainDicts ==
    {D(f) : f \in UNION {[dom -> {I(0), I(1)}] : dom \in SUBSET MainKeys}}
SubDicts == {None} \cup DictsOver(Keys, {None, I(1)})

\* map_keys_to_new_dict: absent, empty and non-empty input dicts (with
\* falsy values and None), key mappings in iteration order, two old keys
\* mapped to one new key included.
InputDicts == {None} \cup DictsOver(Keys, {None, B(TRUE), B(FALSE)})
KeyMappings ==
    {OD(items) :
        items \in {m \in SeqsUpTo({Item(old_key, new_key) :
                                       old_key \in {"a", "b", "c"},
                                       new_key \in {"x", "y"}}, MaxItems) :
                       DistinctKeys(m)}}

\* The calls of the utilities.
PruneCalls == {[fn |-> "remove_none_values", data |-> x] : x \in Structures}
MergeCalls ==
    {[fn |-> "merge_sub_dict_into_main", main_dict |-> m, sub_dict |-> sub,
      prefix_keys |-> pre] :
        m \in MainDicts, sub \in SubDicts, pre \in PrefixKeys}
RenameCalls ==
    {[fn |-> "map_keys_to_new_dict", input_dict |-> d, key_mapping |-> km] :
        d \in InputDicts, km \in KeyMappings}

\* get_template_object_name_by_uuid: the object type, the uuid, and what the
\* API answers: nothing, an empty object, an object with or without a name.
Responses ==
    {None, D(EmptyMap), D([k \in {"name"} |-> S("rec")]),
     D([k \in {"uuid"} |-> S("r1")])}
NameCalls ==
    [fn : {"get_template_object_name_by_uuid"},
     object_type : {"netFlowRecord", "netFlowExporter"}, uuid : {"r1", "e1"},
     response_object : Responses]

NoCall == [fn |-> ""]

(***************************************************************************)
(* The modules ndo_tenant_netflow_monitor, ndo_tenant_netflow_record and   *)
(* ndo_tenant_netflow_exporter.                                            *)
(* A run is given the module parameters, the check mode and what the       *)
(* template holds: the object under the name or uuid (match.details, None  *)
(* for no match), or the list of all objects when neither is given.  An    *)
(* option the user omits is None in the parameters.                        *)
(***************************************************************************)

Monitor == "ndo_tenant_netflow_monitor"
Record == "ndo_tenant_netflow_record"
Exporter == "ndo_tenant_netflow_exporter"

States == {"query", "present", "absent"}

\* A dict with string keys, from a record.
Dict(r) == D([k \in DOMAIN r |-> r[k]])

\* The objects a template holds.  A monitor may hold no recordRef, an empty
\* one or a record's uuid; one monitor holds no exporterRefs.
MonitorObjects ==
    {Dict([name |-> S("m"), description |-> d,
           exporterRefs |-> L(<<S("e1")>>), recordRef |-> r]) :
        d \in {S(""), S("d")}, r \in {S(""), S("r1")}}
    \cup {Dict([name |-> S("m"), description |-> S("d"),
                exporterRefs |-> L(<<S("e1")>>)]),
          Dict([name |-> S("m"), description |-> S("d")])}
RecordObjects ==
    {Dict([name |-> S("m"), description |-> d, match |-> mt]) :
        d \in {S(""), S("d")}, mt \in {L(<<>>), L(<<S("dstIp")>>)}}

ExporterObjects == {Dict([name |-> S("m")]), Dict([name |-> S("n")])}

\* Most objects of the list a query for all objects finds.
MaxObjects == 2

\* netflow_record: omitted, empty, a uuid, a reference to look up, a
\* reference with nothing in it.
Reference(nm) == Dict([name |-> nm, template |-> None, template_id |-> None])
NetflowRecords ==
    {None, D(EmptyMap),
     Dict([uuid |-> None, reference |-> None]),
     Dict([uuid |-> S("r2"), reference |-> None]),
     Dict([uuid |-> None, reference |-> Reference(S("rec"))]),
     Dict([uuid |-> None, reference |-> Reference(None)])}

\* netflow_exporters: exporters given by uuid, by reference, by both ways in
\* one list, by a reference with nothing in it, and by neither.
NetflowExporters ==
    {L(<<Dict([uuid |-> S("e1"), reference |-> None])>>),
     L(<<Dict([uuid |-> S("e1"), reference |-> None]),
         Dict([uuid |-> S("e2"), reference |-> None])>>),
     L(<<Dict([uuid |-> None, reference |-> Reference(S("exp"))])>>),
     L(<<Dict([uuid |-> None, reference |-> Reference(S("exp"))]),
         Dict([uuid |-> S("e2"), reference |-> None])>>),
     L(<<Dict([uuid |-> None, reference |-> Reference(None)])>>),
     L(<<Dict([uuid |-> None, reference |-> None])>>)}

\* The uuid a looked-up NetFlow Record may have.
RecordUuids == {S("r1"), S("r2")}

\* The uuid a looked-up NetFlow Exporter may have.
ExporterUuids == {S("e1"), S("e9")}

\* match_parameters: omitted, empty, or choices of the option.
MatchParameters ==
    {None, L(<<>>), L(<<S("destination_ip")>>),
     L(<<S("destination_ip"), S("source_ip")>>)}

\* MATCH_PARAMETER_MAP: the API name of each choice.
MATCH_PARAMETER_MAP ==
    [param \in {"destination_ip", "source_ip"} |->
        IF param = "destination_ip" THEN S("dstIp") ELSE S("srcIp")]

\* name and uuid: each given or omitted.
Names == {None, S("m"), S("n")}
Uuids == {None, S("u")}

MonitorParams ==
    [name : Names, uuid : Uuids, description : {None, S(""), S("d")},
     netflow_record : NetflowRecords, netflow_exporters : NetflowExporters,
     state : States]
RecordParams ==
    [name : Names, uuid : Uuids, description : {None, S(""), S("d")},
     match_parameters : MatchParameters, state : States]
ExporterParams == [name : Names, uuid : Uuids, state : States]

\* required_if: the states absent and present need a name or a uuid.
RequiredIf(params) ==
    params.state \in {"absent", "present"} =>
        params.name # None \/ params.uuid # None

\* The runs: a module, its parameters and the check mode.
Runs ==
    [module : {Monitor}, params : {q \in MonitorParams : RequiredIf(q)},
     check_mode : BOOLEAN, done : {FALSE}]
    \cup [module : {Record}, params : {q \in RecordParams : RequiredIf(q)},
          check_mode : BOOLEAN, done : {FALSE}]
    \cup [module : {Exporter}, params : {q \in ExporterParams : RequiredIf(q)},
          check_mode : BOOLEAN, done : {FALSE}]
NoRun == [module |-> "", done |-> TRUE]

(***************************************************************************)
(* The state: the caller's objects, and the record of the calls made.      *)
(***************************************************************************)
VARIABLES
    existing_data,  \* the snapshot, mutated in place by the calls
    ops,            \* the operation list, appended to by the calls
    op_refs,        \* the object each operation holds as its value
    replace_data,   \* the replace_data object of the last call, as it is now
    shared,         \* the replace_data values the snapshot holds, and where
    held,           \* the replace_data values that hold another, and where
    raised,         \* the exception the last call ended in, "" for none
    steps,          \* the loop iterations of the last call
    history,        \* per call: its arguments and the state it started in
    call,           \* the utility called and its arguments, NoCall for none
    returned,       \* what the utility returned, call after call
    run,            \* the module run: module, parameters, check mode, done
    requests        \* the requests the run sent to the API

vars == <<existing_data, ops, op_refs, replace_data, shared, held, raised, steps,
          history, call, returned, run, requests>>

module_vars == <<run, requests>>

Init ==
    /\ existing_data \in Snapshots
    /\ ops = <<>>
    /\ op_refs = <<>>
    /\ replace_data = None
    /\ shared = {}
    /\ held = {}
    /\ raised = ""
    /\ steps = <<>>
    /\ history = <<>>
    /\ call = NoCall
    /\ returned = <<>>
    /\ run = NoRun
    /\ requests = <<>>

ItemsOf(rd) == IF rd.t = "odict" THEN rd.items ELSE <<>>

\* What a call of append_update_ops_data(ops, existing_data, update_path,
\* rd, rm) leaves, where the snapshot holds the objects sh of rd and these
\* hold the objects hd of rd.
Reconciled(update_path, rd, rm, sh, hd) ==
    LET w == append_update_ops_data(
                 Walk(ops, op_refs, existing_data, ItemsOf(rd), sh, hd, "", <<>>),
                 update_path, rd, rm)
    IN  [existing_data |-> w.data,
         ops |-> w.ops,
         op_refs |-> w.op_refs,
         replace_data |-> IF rd.t = "odict" THEN OD(w.rd) ELSE rd,
         shared |-> w.shared,
         held |-> w.held,
         raised |-> w.raised,
         steps |-> w.steps,
         history |-> Append(history,
                            [update_path |-> update_path,
                             replace_data |-> rd,
                             remove_data |-> rm,
                             existing_data |-> existing_data,
                             ops |-> ops])]

\* The call, as a step of the program: its effects become the state.
Invoke(update_path, rd, rm, sh, hd) ==
    \E after \in {Reconciled(update_path, rd, rm, sh, hd)} :
        /\ existing_data' = after.existing_data
        /\ ops' = after.ops
        /\ op_refs' = after.op_refs
        /\ replace_data' = after.replace_data
        /\ shared' = after.shared
        /\ held' = after.held
        /\ raised' = after.raised
        /\ steps' = after.steps
        /\ history' = after.history
        /\ UNCHANGED <<call, returned>>

\* The caller builds a replace set and a remove set and reconciles, as the
\* modules do once per run.  Values built for the call are new objects: the
\* snapshot holds none of them yet, and no operation shares one.
Reconcile ==
    /\ history = <<>>
    /\ \E update_path \in UpdatePaths, rd \in ReplaceArgs, rm \in RemoveArgs :
           Invoke(update_path, rd, rm, {}, {})
    /\ UNCHANGED module_vars

\* The caller reconciles again with the replace set of the last call (the
\* same object) and no remove set.
ReconcileAgain ==
    /\ history # <<>>
    /\ Len(history) < MaxCalls
    /\ Invoke(history[Len(history)].update_path, replace_data, None, shared, held)
    /\ UNCHANGED module_vars

Next == Reconcile \/ ReconcileAgain

Spec == Init /\ [][Next]_vars

\* The key and the value the caller stores into a new-value object between
\* two calls: value["b"] = 2.
CallerKeys == {"b"}
CallerValue == I(2)

\* Between two calls the caller mutates, in place, the dict it passed as the
\* new value of item j: value[k] = CallerValue.  The snapshot holds that very
\* object when a call stored it ("data[key] = new_value") and nothing rebound
\* it since, and so does every operation that holds the object rather than a
\* copy of it.
CallerMutates ==
    /\ history # <<>>
    /\ Len(history) < MaxCalls
    /\ replace_data.t = "odict"
    /\ \E j \in DOMAIN replace_data.items, k \in CallerKeys :
          LET value == replace_data.items[j].value
              w == Propagate(Walk(ops, op_refs, existing_data, replace_data.items,
                                  shared, held, raised, steps),
                             HoldersOf(shared, held, j, k), "set", CallerValue, 0)
          IN  /\ value.t = "dict"
              /\ DictGet(value, k) # CallerValue
              /\ existing_data' = w.data
              /\ ops' = w.ops
              /\ replace_data' = OD(w.rd)
              /\ shared' = w.shared
              /\ held' = w.held
    /\ UNCHANGED <<op_refs, raised, steps, history, call, returned>>
    /\ UNCHANGED module_vars

NextWithCaller == Next \/ CallerMutates

\* The calls, and between them the caller mutating the values it passed.
SpecWithCaller == Init /\ [][NextWithCaller]_vars

(***************************************************************************)
(* A call of one of the utilities is drawn and the function is applied;    *)
(* remove_none_values is applied once more to what it returned.  All but   *)
(* get_template_object_name_by_uuid are pure.                              *)
(***************************************************************************)

reconcile_vars ==
    <<existing_data, ops, op_refs, replace_data, shared, held, raised, steps, history>>

InitUtils ==
    /\ existing_data = D(EmptyMap)
    /\ ops = <<>>
    /\ op_refs = <<>>
    /\ replace_data = None
    /\ shared = {}
    /\ held = {}
    /\ raised = ""
    /\ steps = <<>>
    /\ history = <<>>
    /\ call \in PruneCalls \cup MergeCalls \cup RenameCalls \cup NameCalls
    /\ returned = <<>>
    /\ run = NoRun
    /\ requests = <<>>

Prune ==
    /\ call.fn = "remove_none_values"
    /\ returned = <<>>
    /\ returned' = <<remove_none_values(call.data)>>
    /\ UNCHANGED <<call, reconcile_vars, module_vars>>

PruneAgain ==
    /\ call.fn = "remove_none_values"
    /\ Len(returned) = 1
    /\ returned' = Append(returned, remove_none_values(returned[1]))
    /\ UNCHANGED <<call, reconcile_vars, module_vars>>

Merge ==
    /\ call.fn = "merge_sub_dict_into_main"
    /\ returned = <<>>
    /\ returned' = <<merge_sub_dict_into_main(call.main_dict, call.sub_dict,
                                               call.prefix_keys)>>
    /\ UNCHANGED <<call, reconcile_vars, module_vars>>

Rename ==
    /\ call.fn = "map_keys_to_new_dict"
    /\ returned = <<>>
    /\ returned' = <<map_keys_to_new_dict(call.input_dict, call.key_mapping)>>
    /\ UNCHANGED <<call, reconcile_vars, module_vars>>

\* get_template_object_name_by_uuid asks the API and returns the name.
GetName ==
    /\ call.fn = "get_template_object_name_by_uuid"
    /\ returned = <<>>
    /\ requests' = Append(requests, NameRequest(call.object_type, call.uuid))
    /\ returned' = <<get_template_object_name_by_uuid(call.response_object)>>
    /\ UNCHANGED <<call, reconcile_vars, run>>

NextUtils == Prune \/ PruneAgain \/ Merge \/ Rename \/ GetName

SpecUtils == InitUtils /\ [][NextUtils]_vars

(***************************************************************************)
(* main() of the modules.  The model keeps what a run does to ops, to      *)
(* match.details (existing_data) and to the API (requests); the result     *)
(* bookkeeping of the run (mso.existing, mso.previous, mso.proposed) is    *)
(* left out.                                                               *)
(***************************************************************************)

\* "uuid or name": the run names one object.
Specific == Truthy(run.params.uuid) \/ Truthy(run.params.name)

ObjectsOf(module) ==
    CASE module = Monitor -> MonitorObjects
      [] module = Record -> RecordObjects
      [] module = Exporter -> ExporterObjects

InitModules ==
    /\ run \in Runs
    /\ existing_data \in
          IF Specific THEN {None} \cup ObjectsOf(run.module)
          ELSE {L(objs) : objs \in SeqsUpTo(ObjectsOf(run.module), MaxObjects)}
    /\ ops = <<>>
    /\ op_refs = <<>>
    /\ replace_data = None
    /\ shared = {}
    /\ held = {}
    /\ raised = ""
    /\ steps = <<>>
    /\ history = <<>>
    /\ call = NoCall
    /\ returned = <<>>
    /\ requests = <<>>

\* match: the template holds the object, at index MatchIndex, or the list of
\* all objects is not empty.
Matched == Truthy(existing_data) \/ existing_data.t = "dict"
MatchIndex == "0"

\* "/tenantPolicyTemplate/template/<collection>/{0}".format(
\*     match.index if match else "-")
ObjectPath(collection) ==
    "/tenantPolicyTemplate/template/" \o collection \o "/"
        \o (IF Matched THEN MatchIndex ELSE "-")

\* What the query block leaves: match.details or the list of objects, and
\* the exception raised.
Queried(data, exception) == [data |-> data, raised |-> exception]

\* [{"exporterRef": mr} for mr in netflow_exporters], for a list.
netflow_exporters_list_to_dict(netflow_exporters) ==
    L([i \in DOMAIN netflow_exporters.v |->
         Dict([exporterRef |-> netflow_exporters.v[i]])])

\* "for obj in match: obj['exporterRefs'] = ..." from object i on: the
\* objects are rewritten in place; an object without exporterRefs ends the
\* run (None is not iterable).
RECURSIVE QueryAll(_, _)
QueryAll(objs, i) ==
    IF i > Len(objs) THEN Queried(L(objs), "")
    ELSE LET refs == DictGet(objs[i], "exporterRefs") IN
         IF refs.t # "list" THEN Queried(L(objs), "TypeError")
         ELSE QueryAll([objs EXCEPT ![i] =
                           DictSet(@, "exporterRefs",
                                   netflow_exporters_list_to_dict(refs))],
                       i + 1)

\* The query block of the monitor: one object is copied before its
\* exporterRefs are rewritten, the objects of a list are not.
MonitorQuery ==
    IF Specific /\ Matched
    THEN Queried(existing_data,
                 IF DictGet(existing_data, "exporterRefs").t = "list"
                 THEN "" ELSE "TypeError")
    ELSE IF Matched THEN QueryAll(existing_data.v, 1)
    ELSE Queried(existing_data, "")

\* netflow_record_uuid: the uuid given, or the uuid looked_up of the record
\* the reference names, or None.
NetflowRecordUuid(netflow_record, looked_up) ==
    IF ~Truthy(netflow_record) THEN None
    ELSE LET netflow_record_uuid == DictGet(netflow_record, "uuid")
             netflow_record_reference == DictGet(netflow_record, "reference")
         IN  IF /\ ~Truthy(netflow_record_uuid)
                /\ Truthy(netflow_record_reference)
                /\ ~check_if_all_elements_are_none(netflow_record_reference.v)
             THEN looked_up
             ELSE netflow_record_uuid

\* What building mso_values leaves: the values, and the exception raised.
Built(mso_values, exception) == [mso_values |-> mso_values, raised |-> exception]

\* "for netflow_exporter in netflow_exporters" from exporter i on, with
\* netflow_exporter_uuids so far: the uuid given, or the uuid looked_up of
\* the exporter the reference names; an exporter with neither adds nothing,
\* and one whose reference is None raises (None has no values()).
RECURSIVE NetflowExporterLoop(_, _, _, _)
NetflowExporterLoop(netflow_exporters, looked_up, i, netflow_exporter_uuids) ==
    IF i > Len(netflow_exporters)
    THEN Built(L(netflow_exporter_uuids), "")
    ELSE LET netflow_exporter == netflow_exporters[i]
             reference == IF "reference" \in DOMAIN netflow_exporter.v
                          THEN netflow_exporter.v["reference"] ELSE D(EmptyMap)
         IN  IF ~Truthy(netflow_exporter)
             THEN NetflowExporterLoop(netflow_exporters, looked_up, i + 1,
                                      netflow_exporter_uuids)
             ELSE IF Truthy(DictGet(netflow_exporter, "uuid"))
             THEN NetflowExporterLoop(
                      netflow_exporters, looked_up, i + 1,
                      Append(netflow_exporter_uuids,
                             DictGet(netflow_exporter, "uuid")))
             ELSE IF reference.t # "dict"
             THEN Built(L(netflow_exporter_uuids), "AttributeError")
             ELSE IF check_if_all_elements_are_none(reference.v)
             THEN NetflowExporterLoop(netflow_exporters, looked_up, i + 1,
                                      netflow_exporter_uuids)
             ELSE NetflowExporterLoop(netflow_exporters, looked_up, i + 1,
                                      Append(netflow_exporter_uuids, looked_up))

\* netflow_exporter_uuids.
NetflowExporterUuids(netflow_exporters, looked_up) ==
    NetflowExporterLoop(netflow_exporters.v, looked_up, 1, <<>>)

\* mso_values of the monitor, for the uuids the lookups of a record and of
\* an exporter give.
MonitorValues(looked_up, looked_up_exporter) ==
    LET netflow_record_uuid ==
            NetflowRecordUuid(run.params.netflow_record, looked_up)
        netflow_exporter_uuids ==
            NetflowExporterUuids(run.params.netflow_exporters, looked_up_exporter)
    IN  Built(OD(<<Item(S("name"), run.params.name),
                   Item(S("description"), run.params.description),
                   Item(S("exporterRefs"), netflow_exporter_uuids.mso_values),
                   Item(S("recordRef"),
                        IF Truthy(netflow_record_uuid) THEN netflow_record_uuid
                        ELSE S(""))>>),
              netflow_exporter_uuids.raised)

\* mso_values of the record: match_parameters is
\* [MATCH_PARAMETER_MAP.get(param) for param in params["match_parameters"] or []].
RecordValues ==
    LET given == IF Truthy(run.params.match_parameters)
                 THEN run.params.match_parameters.v ELSE <<>>
        match_parameters == [i \in DOMAIN given |-> MATCH_PARAMETER_MAP[given[i].v]]
    IN  OD(<<Item(S("name"), run.params.name),
             Item(S("description"), run.params.description),
             Item(S("match"), L(match_parameters))>>)

\* mso_values of the exporter.
ExporterValues == OD(<<Item(S("name"), run.params.name)>>)

\* mso.sent after mso.sanitize(mso_values) of a run without match: the
\* values that are not None.
sanitize(mso_values) ==
    LET given == {i \in DOMAIN mso_values.items : mso_values.items[i].value # None}
    IN  D([k \in {mso_values.items[i].key.v : i \in given} |->
             mso_values.items[CHOOSE i \in given : mso_values.items[i].key.v = k].value])

\* The request sent whatever the check mode.
RequestIgnoringCheckMode(check_mode, data) ==
    IF data # <<>> THEN <<[method |-> "PATCH", data |-> data]>> ELSE <<>>

\* "if not module.check_mode and ops: mso.request(..., method='PATCH',
\* data=ops)": the requests sent.
Request(check_mode, data) ==
    IF ~check_mode /\ data # <<>>
    THEN <<[method |-> "PATCH", data |-> data]>>
    ELSE <<>>

\* What the run has in hand before a step of main().
Current ==
    [existing_data |-> existing_data,
     ops |-> ops,
     op_refs |-> op_refs,
     replace_data |-> replace_data,
     shared |-> shared,
     held |-> held,
     raised |-> raised,
     steps |-> steps,
     history |-> history]

\* main() from the query block to the request, for what the query block
\* leaves, the mso_values the module builds and the collection that holds
\* its objects.  An exception ends the run where it is raised.
Body(queried, built, collection) ==
    IF queried.raised # ""
    THEN [Current EXCEPT !.existing_data = queried.data,
                         !.raised = queried.raised]
    ELSE IF run.params.state = "present" /\ built.raised # ""
    THEN [Current EXCEPT !.raised = built.raised]
    ELSE
      CASE run.params.state = "present" /\ Matched ->
              Reconciled(ObjectPath(collection), built.mso_values, None, {}, {})
        [] run.params.state = "present" /\ ~Matched ->
              [Current EXCEPT
                  !.ops = Append(ops, [op |-> "add",
                                       path |-> ObjectPath(collection),
                                       value |-> sanitize(built.mso_values)]),
                  !.op_refs = Append(op_refs, 0),
                  !.replace_data = built.mso_values]
        [] run.params.state = "absent" /\ Matched ->
              [Current EXCEPT
                  !.ops = Append(ops, [op |-> "remove",
                                       path |-> ObjectPath(collection)]),
                  !.op_refs = Append(op_refs, 0)]
        [] OTHER ->
              [Current EXCEPT !.existing_data = queried.data]

\* match = mso_template.get_netflow_<object>(uuid, name, response): what the
\* lookup on the response of the PATCH may give, for the run as body left
\* it.  Nothing, the object match already was, or a new object: one of the
\* objects of the module, one equal to the object as updated, or one equal
\* to the object added.
ResponseMatches(body, built) ==
    LET updated == {d \in {body.existing_data} : d.t = "dict"}
        added == IF run.params.state = "present" /\ ~Matched
                 THEN {sanitize(built.mso_values)} ELSE {}
    IN  {[kind |-> "none", details |-> None]}
        \cup {[kind |-> "same", details |-> d] : d \in updated}
        \cup {[kind |-> "new", details |-> d] :
                 d \in ObjectsOf(run.module) \cup updated \cup added}

\* The lines after mso.request(...): match is bound to what the lookup on
\* the response gives, and the monitor (rewrites) replaces the exporterRefs
\* of match.details by netflow_exporters_list_to_dict of them, which raises
\* when the object has none.  The snapshot is match.details from here on:
\* a new object holds no object of mso_values, and the rewritten
\* exporterRefs is a new list.
AfterRequest(body, response_match, rewrites) ==
    LET details == response_match.details
        kept == IF response_match.kind = "same" THEN body.shared ELSE {}
        refs == DictGet(details, "exporterRefs")
    IN  IF response_match.kind = "none"
        THEN [body EXCEPT !.existing_data = None, !.shared = {}]
        ELSE IF ~rewrites
        THEN [body EXCEPT !.existing_data = details, !.shared = kept]
        ELSE IF refs.t # "list"
        THEN [body EXCEPT !.existing_data = details, !.shared = kept,
                          !.raised = "TypeError"]
        ELSE [body EXCEPT
                 !.existing_data =
                     DictSet(details, "exporterRefs",
                             netflow_exporters_list_to_dict(refs)),
                 !.shared = {s \in kept : ~IsPrefix(<<"exporterRefs">>, s[1])}]

\* main() from the query block on.  The request is sent when no exception
\* was raised before it; the lookup on the response and the lines after it
\* run only when it was sent.
Main(queried, built, collection, rewrites) ==
    \E body \in {Body(queried, built, collection)} :
       LET sent == IF body.raised = "" THEN Request(run.check_mode, body.ops)
                   ELSE <<>>
           found == IF sent = <<>> THEN {[kind |-> "none", details |-> None]}
                    ELSE ResponseMatches(body, built)
       IN  \E response_match \in found :
           \E end \in {IF sent = <<>> THEN body
                        ELSE AfterRequest(body, response_match, rewrites)} :
              /\ existing_data' = end.existing_data
              /\ ops' = end.ops
              /\ op_refs' = end.op_refs
              /\ replace_data' = end.replace_data
              /\ shared' = end.shared
              /\ held' = end.held
              /\ raised' = end.raised
              /\ steps' = end.steps
              /\ history' = end.history
              /\ requests' = requests \o sent
              /\ run' = [run EXCEPT !.done = TRUE]
              /\ UNCHANGED <<call, returned>>

MonitorMain ==
    /\ run.module = Monitor
    /\ ~run.done
    /\ \E looked_up \in RecordUuids, looked_up_exporter \in ExporterUuids :
          Main(MonitorQuery, MonitorValues(looked_up, looked_up_exporter),
               "netFlowMonitors", TRUE)

RecordMain ==
    /\ run.module = Record
    /\ ~run.done
    /\ Main(Queried(existing_data, ""), Built(RecordValues, ""), "netFlowRecords",
            FALSE)

ExporterMain ==
    /\ run.module = Exporter
    /\ ~run.done
    /\ Main(Queried(existing_data, ""), Built(ExporterValues, ""),
            "netFlowExporters", FALSE)

NextModules == MonitorMain \/ RecordMain \/ ExporterMain

SpecModules == InitModules /\ [][NextModules]_vars

(***************************************************************************)
(* Vocabulary of the properties.                                           *)
(***************************************************************************)

Called == history # <<>>

\* The arguments of the last call and the state it started in.
LastCall == history[Len(history)]

\* The operations the last call appended.
Appended == SubSeq(ops, Len(LastCall.ops) + 1, Len(ops))

Absent == [t |-> "absent"]

\* The value d holds at segs, Absent when segs does not lead through dicts
\* to a present key.
RECURSIVE ValueAt(_, _)
ValueAt(d, segs) ==
    IF segs = <<>> THEN d
    ELSE IF d.t = "dict" /\ Head(segs) \in DOMAIN d.v
         THEN ValueAt(d.v[Head(segs)], Tail(segs))
    ELSE Absent

\* Some segment of segs but the last is absent from the dict the segments
\* before it lead to.
MissingIntermediate(d, segs) ==
    \E i \in 1..(Len(segs) - 1) :
        LET at == ValueAt(d, SubSeq(segs, 1, i - 1)) IN
        at.t = "dict" /\ segs[i] \notin DOMAIN at.v

\* update_path followed by the segments, each preceded by "/".
RECURSIVE Join(_, _)
Join(update_path, segs) ==
    IF segs = <<>> THEN update_path
    ELSE Join(Format(update_path, Head(segs)), Tail(segs))

\* The locations the declared keys address, and the segments of a location
\* string relative to update_path.
Locations == {KeysOf(k) : k \in DeclaredKeys}
SegsOf(update_path, path) ==
    CHOOSE segs \in Locations : Join(update_path, segs) = path

\* A document after one operation / a sequence of operations was applied to
\* it: replace stores the value at the location, remove deletes the key.
ApplyOp(doc, update_path, o) ==
    IF o.op = "replace" THEN SetAt(doc, SegsOf(update_path, o.path), o.value)
    ELSE DelAt(doc, SegsOf(update_path, o.path))

RECURSIVE ApplyOps(_, _, _)
ApplyOps(doc, update_path, os) ==
    IF os = <<>> THEN doc
    ELSE ApplyOps(ApplyOp(doc, update_path, Head(os)), update_path, Tail(os))

\* No declared path of items equals another or leads below another.
NonOverlapping(items) ==
    \A i \in DOMAIN items, j \in DOMAIN items :
        i # j => ~IsPrefix(KeysOf(items[i].key), KeysOf(items[j].key))

(***************************************************************************)
(* C1 - C10: the properties of append_update_ops_data.                     *)
(***************************************************************************)

\* C1: a call that raises because replace_data or remove_data has the wrong
\* shape raises before any mutation: existing_data and ops are as they were
\* before the call.
C1_ShapeErrorBeforeMutation ==
    (Called /\ raised \in {ReplaceShapeError, RemoveShapeError})
        => /\ existing_data = LastCall.existing_data
           /\ ops = LastCall.ops

\* The call before the last one.
PrevCall == history[Len(history) - 1]

\* The last call was made with the replace set of the call before it, which
\* that call left as it was, and neither call had entries to remove.
SameReplaceSetAgain ==
    /\ Len(history) >= 2
    /\ PrevCall.replace_data.t = "odict"
    /\ LastCall.replace_data = PrevCall.replace_data
    /\ ~Truthy(PrevCall.remove_data)
    /\ ~Truthy(LastCall.remove_data)

\* C2 (as claimed): a second call with the same replace set, on the snapshot
\* the first call produced, appends no operation, whatever the declared
\* paths.
C2_Idempotent == SameReplaceSetAgain => Appended = <<>>

\* C2 (amended): a second call with the same replace set, on the snapshot the
\* first call produced, appends no operation, provided no declared path of
\* the replace set equals another or leads below another.
C2_IdempotentDisjoint ==
    (SameReplaceSetAgain /\ NonOverlapping(LastCall.replace_data.items))
        => Appended = <<>>

C2_Witness ==
    /\ SameReplaceSetAgain
    /\ NonOverlapping(LastCall.replace_data.items)
    /\ Len(LastCall.replace_data.items) = 2
    /\ Len(LastCall.ops) = Len(PrevCall.ops) + 2
    /\ Appended = <<>>

\* The value is stored at the path of the replace iteration st when the
\* iteration starts, and equals (==) the declared new value.
AlreadyEqual(st) ==
    /\ st.kind = "replace"
    /\ ValueAt(st.before, st.keys) # Absent
    /\ PyEq(ValueAt(st.before, st.keys), st.new_value)

\* C3: a replace entry whose declared new value equals the value stored at
\* its path appends no operation and leaves the snapshot unchanged at that
\* path.
C3_NoOpSuppressed ==
    \A k \in DOMAIN steps :
        AlreadyEqual(steps[k])
            => /\ steps[k].appended = 0
               /\ steps[k].raised = ""
               /\ ValueAt(steps[k].after, steps[k].keys)
                    = ValueAt(steps[k].before, steps[k].keys)

C3_Witness ==
    \E k \in DOMAIN steps :
        /\ AlreadyEqual(steps[k])
        /\ steps[k].new_value = I(1)
        /\ ValueAt(steps[k].before, steps[k].keys) = B(TRUE)
        /\ steps[k].after = steps[k].before

\* C4: a call whose replace_data is given and is not a dict ends in the
\* TypeError of replace_data, and a call whose remove_data is given and is
\* not a list ends in one of the two TypeErrors, falsy arguments included.
C4_WrongShapeRaises ==
    Called =>
        /\ LastCall.replace_data.t \notin {"none", "odict"}
              => raised = ReplaceShapeError
        /\ LastCall.remove_data.t \notin {"none", "list"}
              => raised \in {ReplaceShapeError, RemoveShapeError}

\* C5: the operations a call appended, applied in order to the snapshot the
\* call started with, give the snapshot the call left.
C5_OpsMirrorSnapshot ==
    Called =>
        ApplyOps(LastCall.existing_data, LastCall.update_path, Appended)
            = existing_data

C5_Witness ==
    /\ Called
    /\ Len(Appended) = 3
    /\ \E i \in 1..3 : Appended[i].op = "replace" /\ Appended[i].value.t = "dict"
    /\ \E i \in 1..3 : Appended[i].op = "remove"
    /\ existing_data # LastCall.existing_data
    /\ ApplyOps(LastCall.existing_data, LastCall.update_path, Appended)
            = existing_data

\* The operations that can lead to the document post: a replace of a
\* location by the value post holds there, and a remove of a location.
CandidateOps(update_path, post) ==
    {[op |-> "replace", path |-> Join(update_path, segs),
      value |-> ValueAt(post, segs)] :
        segs \in {l \in Locations : ValueAt(post, l) # Absent}}
    \cup {[op |-> "remove", path |-> Join(update_path, segs)] : segs \in Locations}

\* C6 (as claimed): no sequence of operations shorter than the one a call
\* appended transforms the snapshot before the call into the one after it.
C6_Smallest ==
    Called =>
        \A m \in 0..(Len(Appended) - 1) :
            \A os \in [1..m -> CandidateOps(LastCall.update_path, existing_data)] :
                ApplyOps(LastCall.existing_data, LastCall.update_path, os)
                    # existing_data

\* Every operation of os changes the document it is applied to.
RECURSIVE EachOpEffective(_, _, _)
EachOpEffective(doc, update_path, os) ==
    \/ os = <<>>
    \/ /\ ApplyOp(doc, update_path, Head(os)) # doc
       /\ EachOpEffective(ApplyOp(doc, update_path, Head(os)), update_path, Tail(os))

\* The number of entries a call declares.
Declared(c) ==
    Len(ItemsOf(c.replace_data))
        + (IF c.remove_data.t = "list" THEN Len(c.remove_data.v) ELSE 0)

\* C6 (amended): the appended operations hold no redundant step: each one,
\* applied in order from the snapshot before the call, changes the document,
\* and there is at most one operation per declared entry.
C6_EachOpEffective ==
    Called =>
        /\ EachOpEffective(LastCall.existing_data, LastCall.update_path, Appended)
        /\ Len(Appended) <= Declared(LastCall)

C6_Witness ==
    /\ Called
    /\ Len(Appended) = 2
    /\ Appended[1].op = "replace"
    /\ Appended[2].op = "remove"
    /\ Appended[1].path = Appended[2].path
    /\ EachOpEffective(LastCall.existing_data, LastCall.update_path, Appended)

\* C7: an entry whose path has an intermediate segment that is absent from
\* the snapshot does not raise, appends no operation and leaves the snapshot
\* as it is.
C7_MissingPathSafe ==
    \A k \in DOMAIN steps :
        MissingIntermediate(steps[k].before, steps[k].keys)
            => /\ steps[k].raised = ""
               /\ steps[k].appended = 0
               /\ steps[k].after = steps[k].before

C7_Witness ==
    /\ \E k \in DOMAIN steps :
        /\ steps[k].kind = "replace"
        /\ steps[k].new_value # None
        /\ MissingIntermediate(steps[k].before, steps[k].keys)
        /\ steps[k].after = steps[k].before
    /\ \E k \in DOMAIN steps :
        /\ steps[k].kind = "remove"
        /\ MissingIntermediate(steps[k].before, steps[k].keys)
    /\ Appended = <<>>
    /\ raised = ""

\* C8: a call whose replace_data is a dict (or absent) and whose remove_data
\* is a list (or absent) completes without raising.
C8_NoMidWalkFailure ==
    (/\ Called
     /\ LastCall.replace_data.t \in {"none", "odict"}
     /\ LastCall.remove_data.t \in {"none", "list"})
        => raised = ""

\* The sample of the specification, on the keys of the model: snapshot
\* {a: "a", b: 1}, replace {("a",): 1}, remove [("b",)], base /x/0.
SampleCall ==
    /\ Len(history) = 1
    /\ LastCall.existing_data = D([a |-> S("a"), b |-> I(1)])
    /\ LastCall.update_path = "/x/0"
    /\ LastCall.replace_data = OD(<<Item(T(<<"a">>), I(1))>>)
    /\ LastCall.remove_data = L(<<T(<<"b">>)>>)

SampleResult ==
    /\ ops = <<[op |-> "replace", path |-> "/x/0/a", value |-> I(1)],
               [op |-> "remove", path |-> "/x/0/b"]>>
    /\ existing_data = D([a |-> I(1)])

\* C9: among the operations a call appended, every replace precedes every
\* remove; the sample call gives [replace /x/0/a, remove /x/0/b].
C9_ReplaceBeforeRemove ==
    Called =>
        /\ \A m \in DOMAIN Appended, n \in DOMAIN Appended :
              (Appended[m].op = "remove" /\ Appended[n].op = "replace") => n < m
        /\ SampleCall => SampleResult

C9_Witness == SampleCall /\ SampleResult

\* The operations of one kind among those the last call appended.
AppendedOf(kind) == SelectSeq(Appended, LAMBDA o : o.op = kind)

\* There is a strictly increasing map from 1..n into 1..m that Match accepts.
Embeds(n, m, Match(_, _)) ==
    \E f \in [1..n -> 1..m] :
        /\ \A i \in 1..n, j \in 1..n : i < j => f[i] < f[j]
        /\ \A i \in 1..n : Match(i, f[i])

\* C10: the replace operations a call appended are caused, in order, by
\* items of replace_data in iteration order, and the remove operations by
\* entries of remove_data in list order.
C10_DeclarationOrder ==
    Called =>
        LET items == ItemsOf(LastCall.replace_data)
            keys == IF LastCall.remove_data.t = "list"
                    THEN LastCall.remove_data.v ELSE <<>>
            reps == AppendedOf("replace")
            rems == AppendedOf("remove")
            up == LastCall.update_path
        IN  /\ Embeds(Len(reps), Len(items),
                      LAMBDA i, k : /\ reps[i].path = Join(up, KeysOf(items[k].key))
                                    /\ reps[i].value = items[k].value)
            /\ Embeds(Len(rems), Len(keys),
                      LAMBDA i, k : rems[i].path = Join(up, KeysOf(keys[k])))

C10_Witness ==
    /\ Called
    /\ LastCall.remove_data = L(<<T(<<"a", "b", "a">>), S("b")>>)
    /\ Len(Appended) = 4
    /\ Appended[1].op = "replace"
    /\ Appended[2].op = "replace"
    /\ Appended[1].path # Appended[2].path
    /\ Appended[3] = [op |-> "remove", path |-> "/x/0/a/b/a"]
    /\ Appended[4] = [op |-> "remove", path |-> "/x/0/b"]


(***************************************************************************)
(* C11 - C14, C19: more properties of append_update_ops_data.              *)
(***************************************************************************)

\* The index in ops of the operation the k-th iteration of the last call
\* appended.
OpIndexOf(k) ==
    Len(LastCall.ops) + Cardinality({m \in 1..k : steps[m].appended = 1})

\* Every replace operation the last call appended still records the new
\* value as it was when the entry was walked.
RecordedAsWalked ==
    Called =>
        \A k \in DOMAIN steps :
            (steps[k].kind = "replace" /\ steps[k].appended = 1)
                => /\ OpIndexOf(k) \in DOMAIN ops
                   /\ ops[OpIndexOf(k)].value = steps[k].new_value

\* C11: the value recorded in an appended replace operation never changes
\* afterwards: a later entry of the same call that mutates the snapshot below
\* the replaced location leaves it as it was when its entry was walked, and
\* no later step (the caller mutating the new-value object, a later call)
\* changes an operation already in ops.
C11_DeepCopyIsolation ==
    [][/\ \A n \in DOMAIN ops : n \in DOMAIN ops' /\ ops'[n] = ops[n]
       /\ RecordedAsWalked']_vars

\* An operation records a dict, and since then the object it was copied from
\* was mutated: by the caller, or by a later entry through the snapshot.
C11_Witness ==
    /\ Called
    /\ replace_data.t = "odict"
    /\ \E k \in DOMAIN steps :
          /\ steps[k].kind = "replace" /\ steps[k].appended = 1
          /\ steps[k].new_value.t = "dict"
          /\ \E j \in DOMAIN replace_data.items :
                /\ KeysOf(replace_data.items[j].key) = steps[k].keys
                /\ replace_data.items[j].value # steps[k].new_value

\* C12: a replace entry whose value is None (no declared change) appends no
\* operation and leaves the snapshot as it was, whatever the snapshot and
\* the path, the final key present or not.
C12_NoneIsNoChange ==
    Called =>
        \A k \in DOMAIN steps :
            (steps[k].kind = "replace" /\ steps[k].new_value = None)
                => /\ steps[k].appended = 0
                   /\ steps[k].after = steps[k].before

\* An entry with value None was walked whose final key the snapshot holds
\* with a value that is not None.
C12_Witness ==
    /\ Called
    /\ \E k \in DOMAIN steps :
          /\ steps[k].kind = "replace"
          /\ steps[k].new_value = None
          /\ ValueAt(steps[k].before, steps[k].keys) \notin {Absent, None}

\* Each iteration of the last call starts in the snapshot the iteration
\* before it left: the first in the snapshot the call was given, and the
\* last leaves the snapshot as it is now.
StepsChained ==
    /\ \A k \in DOMAIN steps :
          steps[k].before = IF k = 1 THEN LastCall.existing_data
                            ELSE steps[k - 1].after
    /\ steps # <<>> => steps[Len(steps)].after = existing_data

\* The snapshot holds the final key of segs (in the dict the segments before
\* it lead to).
Present(d, segs) == ValueAt(d, segs) # Absent

\* C13: a remove operation is appended for a declared path if and only if
\* the final key is present in the snapshot when the entry is walked, after
\* the replace entries and the earlier remove entries of the call; when
\* appended the key is deleted from the snapshot, and when the key is absent
\* nothing is appended and the snapshot is unchanged.
C13_RemoveIffPresent ==
    Called =>
        /\ StepsChained
        /\ \A k \in DOMAIN steps :
              steps[k].kind = "remove" =>
                  IF Present(steps[k].before, steps[k].keys)
                  THEN /\ steps[k].appended = 1
                       /\ steps[k].after = DelAt(steps[k].before, steps[k].keys)
                       /\ ~Present(steps[k].after, steps[k].keys)
                  ELSE /\ steps[k].appended = 0
                       /\ steps[k].after = steps[k].before

\* A key the call was given absent, created by a replace entry, is removed
\* by a remove entry, and a later remove entry for the same key finds it
\* absent.
C13_Witness ==
    /\ Called
    /\ \E k \in DOMAIN steps, l \in DOMAIN steps :
          /\ k < l
          /\ steps[k].kind = "remove" /\ steps[l].kind = "remove"
          /\ steps[k].keys = steps[l].keys
          /\ ~Present(LastCall.existing_data, steps[k].keys)
          /\ steps[k].appended = 1
          /\ steps[l].appended = 0

\* The keys the last call was given, in the order it walks them: those of
\* replace_data, then the entries of remove_data.
DeclaredOrder ==
    [i \in DOMAIN ItemsOf(LastCall.replace_data) |->
        ItemsOf(LastCall.replace_data)[i].key]
    \o (IF LastCall.remove_data.t = "list" THEN LastCall.remove_data.v ELSE <<>>)

\* The segments of a declared key: a bare key is a path of one segment.
Segments(key) == IF key.t = "str" THEN <<key.v>> ELSE key.v

\* base followed by the segments, each preceded by "/".
RECURSIVE Located(_, _)
Located(base, segs) ==
    IF segs = <<>> THEN base
    ELSE Located(base, Front(segs)) \o "/" \o Last(segs)

\* C14: the path of every operation the call appends is the base path
\* followed by all segments of the declared path, each preceded by "/",
\* whatever the length of the path, a bare key being a one-segment path.
C14_OperationLocation ==
    Called =>
        /\ Len(steps) <= Len(DeclaredOrder)
        /\ \A k \in DOMAIN steps :
              steps[k].appended = 1 =>
                  ops[OpIndexOf(k)].path =
                      Located(LastCall.update_path, Segments(DeclaredOrder[k]))

\* One call appended an operation for a path of three segments and one for
\* a bare key.
C14_Witness ==
    /\ Called
    /\ \E k \in DOMAIN steps, l \in DOMAIN steps :
          /\ steps[k].appended = 1 /\ steps[l].appended = 1
          /\ DeclaredOrder[k].t = "tuple" /\ Len(DeclaredOrder[k].v) = 3
          /\ DeclaredOrder[l].t = "str"

\* The segments of st before the last lead to a dict that does not hold the
\* final key, and st declares a new value.
CreatesKey(st) ==
    /\ st.kind = "replace"
    /\ st.new_value # None
    /\ ValueAt(st.before, Front(st.keys)) # Absent
    /\ ValueAt(st.before, Front(st.keys)).t = "dict"
    /\ ~Present(st.before, st.keys)

\* C19: a replace entry whose intermediate segments all exist and whose final
\* key is absent, with a new value that is not None, creates the key with
\* the new value and appends an operation with op "replace" (never "add")
\* at that location.
C19_ReplaceCreatesKey ==
    Called =>
        \A k \in DOMAIN steps :
            CreatesKey(steps[k]) =>
                /\ steps[k].appended = 1
                /\ steps[k].after = SetAt(steps[k].before, steps[k].keys,
                                          steps[k].new_value)
                /\ ValueAt(steps[k].after, steps[k].keys) = steps[k].new_value
                /\ ops[OpIndexOf(k)].op = "replace"
                /\ ops[OpIndexOf(k)].path =
                       Located(LastCall.update_path, steps[k].keys)
                /\ ops[OpIndexOf(k)].value = steps[k].new_value

\* A key was created below the top level of the snapshot.
C19_Witness ==
    /\ Called
    /\ \E k \in DOMAIN steps :
          /\ CreatesKey(steps[k])
          /\ Len(steps[k].keys) >= 2
          /\ steps[k].appended = 1

(***************************************************************************)
(* C15 - C18: the properties of the other utilities.                       *)
(***************************************************************************)

Pruned == call.fn = "remove_none_values" /\ Len(returned) >= 1
PrunedTwice == call.fn = "remove_none_values" /\ Len(returned) = 2

\* C15: remove_none_values(remove_none_values(x)) equals
\* remove_none_values(x), for every nested structure x of dicts, lists and
\* scalars, None and empty dicts and lists at any level included.
C15_PruneIdempotent == PrunedTwice => returned[2] = returned[1]

\* The first application removed something two levels down and left a
\* structure, which was pruned again.
C15_Witness ==
    /\ PrunedTwice
    /\ returned[1] \notin {None, call.data}
    /\ \E x \in Nested \ Flat : call.data \in {D([k \in {"a"} |-> x]), L(<<x>>)}

\* x holds no None, no empty dict and no empty list at any level.
RECURSIVE NoHoles(_)
NoHoles(x) ==
    CASE x.t = "dict" -> DOMAIN x.v # {} /\ \A key \in DOMAIN x.v : NoHoles(x.v[key])
      [] x.t = "list" -> x.v # <<>> /\ \A i \in DOMAIN x.v : NoHoles(x.v[i])
      [] OTHER -> x # None

\* The keys of the model in a fixed order, and the concatenation of the
\* sequences f[i].
KeyOrder == <<"a", "b">>
RECURSIVE Concat(_)
Concat(f) == IF f = <<>> THEN <<>> ELSE Head(f) \o Concat(Tail(f))

\* The scalars of x that are not None, in the order of x (a dict by
\* KeyOrder).
RECURSIVE ScalarsOf(_)
ScalarsOf(x) ==
    CASE x.t = "dict" ->
            Concat([i \in DOMAIN KeyOrder |->
                      IF KeyOrder[i] \in DOMAIN x.v
                      THEN ScalarsOf(x.v[KeyOrder[i]]) ELSE <<>>])
      [] x.t = "list" -> Concat([i \in DOMAIN x.v |-> ScalarsOf(x.v[i])])
      [] x.t = "none" -> <<>>
      [] OTHER -> <<x>>

\* C16: remove_none_values(x) is None or a structure with no None, no empty
\* dict and no empty list at any level; the scalars of x that are not None,
\* the falsy 0, False and "" included, are kept unchanged (all of them, in
\* their order), and a scalar x is returned as it is.
C16_PruneShape ==
    Pruned =>
        /\ returned[1] = None \/ NoHoles(returned[1])
        /\ ScalarsOf(returned[1]) = ScalarsOf(call.data)
        /\ call.data \in Scalars => returned[1] = call.data

\* A structure with a None, an empty container and a falsy scalar was
\* pruned to a structure.
C16_Witness ==
    /\ Pruned
    /\ call.data.t = "dict"
    /\ DOMAIN call.data.v = {"a", "b"}
    /\ call.data.v["a"].t = "list"
    /\ Len(call.data.v["a"].v) = 2
    /\ call.data.v["a"].v[1] = None
    /\ call.data.v["a"].v[2] = I(0)
    /\ call.data.v["b"] = D(EmptyMap)
    /\ returned[1] = D([k \in {"a"} |-> L(<<I(0)>>)])

Merged == call.fn = "merge_sub_dict_into_main" /\ returned # <<>>

\* The tuple keys the merge assigns.
AssignedKeys ==
    {PrefixedKey(call.prefix_keys, key) : key \in DOMAIN call.sub_dict.v}

\* Every assigned key is mapped to the value sub_dict holds for its key.
MappedToSub ==
    \A key \in DOMAIN call.sub_dict.v :
        /\ PrefixedKey(call.prefix_keys, key) \in DOMAIN returned[1].v
        /\ returned[1].v[PrefixedKey(call.prefix_keys, key)] = call.sub_dict.v[key]

\* C17 as stated: an empty or absent sub_dict leaves main_dict unchanged; a
\* non-empty one adds exactly len(sub_dict) new entries, each keyed by the
\* tuple prefix + key and mapped to the sub_dict value, also when main_dict
\* already holds some of those keys.
C17_AddsLenSubDict ==
    Merged =>
        IF ~Truthy(call.sub_dict) THEN returned[1] = call.main_dict
        ELSE /\ MappedToSub
             /\ Cardinality(DOMAIN returned[1].v) =
                    Cardinality(DOMAIN call.main_dict.v)
                        + Cardinality(DOMAIN call.sub_dict.v)

\* C17 amended: an empty or absent sub_dict leaves main_dict unchanged; a
\* non-empty one maps each tuple prefix + key to the sub_dict value, keeps
\* every other entry, and adds one entry per assigned key that main_dict did
\* not hold (len(sub_dict) entries when it held none of them), a key it
\* held being overwritten.
C17_AssignsPrefixedKeys ==
    Merged =>
        IF ~Truthy(call.sub_dict) THEN returned[1] = call.main_dict
        ELSE /\ MappedToSub
             /\ DOMAIN returned[1].v = DOMAIN call.main_dict.v \cup AssignedKeys
             /\ \A k \in DOMAIN call.main_dict.v \ AssignedKeys :
                    returned[1].v[k] = call.main_dict.v[k]
             /\ Cardinality(DOMAIN returned[1].v) =
                    Cardinality(DOMAIN call.main_dict.v)
                        + Cardinality(AssignedKeys \ DOMAIN call.main_dict.v)
             /\ Cardinality(AssignedKeys) = Cardinality(DOMAIN call.sub_dict.v)

\* A sub_dict of two keys was merged into a main_dict that held one of the
\* two tuple keys with another value, and a bare key.
C17_Witness ==
    /\ Merged
    /\ call.sub_dict.t = "dict"
    /\ Cardinality(DOMAIN call.sub_dict.v) = 2
    /\ Cardinality(AssignedKeys \cap DOMAIN call.main_dict.v) = 1
    /\ \E k \in AssignedKeys \cap DOMAIN call.main_dict.v :
          returned[1].v[k] # call.main_dict.v[k]
    /\ S("a") \in DOMAIN call.main_dict.v

Renamed == call.fn = "map_keys_to_new_dict" /\ returned # <<>>

\* The destination keys of the key mapping.
NewKeys ==
    {call.key_mapping.items[i].value : i \in DOMAIN call.key_mapping.items}

\* The value of the input at the source key of new_key (of the last source
\* key mapped to it), None when the input is absent or does not hold it.
SourceValue(new_key) ==
    IF call.input_dict.t = "dict"
    THEN DictGet(call.input_dict,
                 call.key_mapping.items[LastFor(call.key_mapping, new_key)].key)
    ELSE None

\* C18 as stated: for every input dict, an absent or empty one included,
\* the result's key set is exactly the set of destination keys, each value
\* being the input's value at the source key or None.
C18_ExactlyNewKeys ==
    Renamed =>
        /\ DOMAIN returned[1].v = NewKeys
        /\ \A new_key \in NewKeys : returned[1].v[new_key] = SourceValue(new_key)

\* C18 amended: for a non-empty input dict the result's key set is exactly
\* the set of destination keys, each value being the input's value at the
\* source key, None when the input does not hold it; for an absent or empty
\* input dict the result is the empty dict.
C18_NewKeysOfNonEmptyInput ==
    Renamed =>
        IF Truthy(call.input_dict)
        THEN /\ DOMAIN returned[1].v = NewKeys
             /\ \A new_key \in NewKeys :
                    returned[1].v[new_key] = SourceValue(new_key)
        ELSE returned[1] = D(EmptyMap)

\* A non-empty input was renamed through a mapping with a source key the
\* input holds (with a falsy value) and one it does not hold.
C18_Witness ==
    /\ Renamed
    /\ Truthy(call.input_dict)
    /\ Cardinality(NewKeys) = 2
    /\ \E new_key \in NewKeys : returned[1].v[new_key] = B(FALSE)
    /\ \E i \in DOMAIN call.key_mapping.items :
          call.key_mapping.items[i].key \notin DOMAIN call.input_dict.v

(***************************************************************************)
(* C20: the modules.                                                       *)
(***************************************************************************)

\* The run updated an existing object: state present, with a match.
Updated == run.module # "" /\ run.done /\ run.params.state = "present" /\ Called

\* The fields of the object whose option the user omitted: recordRef for
\* netflow_record of the monitor, match and description for
\* match_parameters and description of the record.
OmittedFields ==
    CASE run.module = Monitor ->
            {f \in {"recordRef"} : run.params.netflow_record = None}
      [] run.module = Record ->
            {f \in {"match"} : run.params.match_parameters = None}
            \cup {f \in {"description"} : run.params.description = None}
      [] OTHER -> {}

\* The value the run handed to append_update_ops_data for field.
Handed(field) ==
    LET items == LastCall.replace_data.items IN
    items[CHOOSE i \in DOMAIN items : items[i].key = S(field)].value

\* The object the run found, as append_update_ops_data left it.
AsUpdated ==
    append_update_ops_data(
        Walk(LastCall.ops, [n \in DOMAIN LastCall.ops |-> 0],
             LastCall.existing_data, ItemsOf(LastCall.replace_data),
             {}, {}, "", <<>>),
        LastCall.update_path, LastCall.replace_data,
        LastCall.remove_data).data

\* C20: when the monitor or the record module updates an existing object
\* and the user omits netflow_record (monitor), match_parameters or
\* description (record), the value handed to append_update_ops_data for the
\* field is None, no operation is emitted for it, and the recordRef, match
\* or description of the object is left as it was.
C20_OmittedNotTouched ==
    Updated =>
        \A field \in OmittedFields :
            /\ Handed(field) = None
            /\ \A n \in DOMAIN ops :
                   ops[n].path # Located(LastCall.update_path, <<field>>)
            /\ ValueAt(AsUpdated, <<field>>)
                   = ValueAt(LastCall.existing_data, <<field>>)

(***************************************************************************)
(* C21: the request of the modules.                                        *)
(***************************************************************************)

\* The run has ended.
Ran == run.module # "" /\ run.done

\* Every field the run declared (with a value that is not None) held an
\* equal value in the object the run found.
NothingToChange ==
    /\ Called
    /\ \A i \in DOMAIN LastCall.replace_data.items :
          LET item == LastCall.replace_data.items[i] IN
          item.value # None =>
              /\ Present(LastCall.existing_data, KeysOf(item.key))
              /\ PyEq(ValueAt(LastCall.existing_data, KeysOf(item.key)),
                      item.value)

\* C21: a run of the exporter, monitor or record module sends the PATCH
\* request at most once, and sends it if and only if check mode is off and
\* the operation list is not empty; so a query never sends it, nor does
\* state absent without a match, nor state present on an object whose
\* declared fields already equal the current values.  The match is the one
\* the run found before the request.
C21_PatchOnceIffOps ==
    [][/\ Len(requests') <= 1
       /\ (run'.module # "" /\ ~run'.done) => requests' = <<>>
       /\ (run.module # "" /\ ~run.done /\ run'.done) =>
             /\ requests' # <<>> <=> (~run.check_mode /\ ops' # <<>>)
             /\ requests' # <<>> =>
                    requests'[1] = [method |-> "PATCH", data |-> ops']
             /\ run.params.state = "query" => requests' = <<>>
             /\ (run.params.state = "absent" /\ ~Matched) => requests' = <<>>
             /\ (run.params.state = "present" /\ NothingToChange') =>
                    requests' = <<>>]_vars

\* The exporter, check mode off, renamed an existing object and sent one
\* request with the replace operation.
C21_Witness ==
    /\ Ran
    /\ run.module = Exporter
    /\ ~run.check_mode
    /\ run.params.state = "present"
    /\ Called
    /\ Len(requests) = 1
    /\ Len(requests[1].data) = 1
    /\ requests[1].data[1].op = "replace"
====
